---- MODULE Spec2Model ----
(***************************************************************************)
(* Fuzzy multi-criteria decision session of zotoi_lr1 (App.tsx and its     *)
(* second revision, src/unnamed/part_000).                                 *)
(*                                                                         *)
(* Numbers.  A JavaScript number is an IEEE-754 binary floating point      *)
(* value.  The model keeps the format and scales it down: a number is an   *)
(* integer count of units of 1/One, every arithmetic result is rounded to  *)
(* Precision significant bits (round to nearest, ties to even), and the    *)
(* unit is the smallest subnormal.  binary64 is the same format with       *)
(* Precision = 53.  NaN is a value of its own: arithmetic propagates it    *)
(* and every comparison with it is false.                                  *)
(***************************************************************************)
EXTENDS Integers, Sequences, FiniteSets, TLC

\* ------------------------------------------------------------------ bounds
Precision == 3          \* significand bits of the scaled-down float format
FracBits == 6           \* One = 2^FracBits units
TriRange == 13          \* orderTriangular inputs range over -TriRange..TriRange units

One == 2 ^ FracBits
Half == One \div 2

\* ------------------------------------------------------------ number layer
NaN == -999999

IsNaN(x) == x = NaN

Abs(n) == IF n < 0 THEN -n ELSE n

RECURSIVE Quantum(_, _, _)
\* the spacing of the floats around n/den: the least power of two q with
\* n/den < q * 2^Precision
Quantum(n, den, q) ==
  IF n < q * (2 ^ Precision) * den THEN q ELSE Quantum(n, den, 2 * q)

\* num/den (den > 0) rounded to the nearest float, ties to even
RoundRat(num, den) ==
  LET n == Abs(num)
      q == Quantum(n, den, 1)
      m == n \div (den * q)
      rem == n - m * den * q
      up == \/ 2 * rem > den * q
            \/ 2 * rem = den * q /\ m % 2 = 1
      mag == (IF up THEN m + 1 ELSE m) * q
  IN  IF num < 0 THEN -mag ELSE mag

FAdd(x, y) == IF IsNaN(x) \/ IsNaN(y) THEN NaN ELSE RoundRat(x + y, 1)
FSub(x, y) == IF IsNaN(x) \/ IsNaN(y) THEN NaN ELSE RoundRat(x - y, 1)
FMul(x, y) == IF IsNaN(x) \/ IsNaN(y) THEN NaN ELSE RoundRat(x * y, One)
\* x / y for y # 0
FDiv(x, y) ==
  IF IsNaN(x) \/ IsNaN(y) THEN NaN
  ELSE IF y < 0 THEN RoundRat(-(x * One), -y) ELSE RoundRat(x * One, y)
\* x / n for a positive integer count n
FDivInt(x, n) == IF IsNaN(x) THEN NaN ELSE RoundRat(x, n)

\* comparisons: false as soon as an operand is NaN
Le(x, y) == ~IsNaN(x) /\ ~IsNaN(y) /\ x <= y
Lt(x, y) == ~IsNaN(x) /\ ~IsNaN(y) /\ x < y
Ge(x, y) == Le(y, x)
Gt(x, y) == Lt(y, x)

SetMin(S) == CHOOSE x \in S : \A y \in S : x <= y
SetMax(S) == CHOOSE x \in S : \A y \in S : x >= y

Range(s) == {s[i] : i \in DOMAIN s}

\* Math.min(...xs) / Math.max(...xs) of a non-empty sequence: NaN if any is NaN
MathMin(xs) == IF NaN \in Range(xs) THEN NaN ELSE SetMin(Range(xs))
MathMax(xs) == IF NaN \in Range(xs) THEN NaN ELSE SetMax(Range(xs))

\* ---------------------------------------------------------- orderTriangular
Tri(l, m, r) == [left |-> l, middle |-> m, right |-> r]

orderTriangular(t) ==
  LET left == MathMin(<<t.left, t.middle, t.right>>)
      right == MathMax(<<t.left, t.middle, t.right>>)
      sum == FAdd(FAdd(t.left, t.middle), t.right)
      middle == MathMax(<<left, MathMin(<<right, FSub(FSub(sum, left), right)>>)>>)
  IN  [left |-> left, middle |-> middle, right |-> right]

\* ------------------------------------------------------ interval expansion
Undefined == ""

Cell(f, t) == [from |-> f, to |-> t]

\* Array.prototype.indexOf, 0-based, -1 when absent
indexOf(s, x) ==
  IF \E i \in DOMAIN s : s[i] = x
  THEN (CHOOSE i \in DOMAIN s : s[i] = x /\ \A j \in 1..(i - 1) : s[j] # x) - 1
  ELSE -1

\* Array.prototype.slice(start, end) for 0 <= start, end <= length
slice(s, start, end) == SubSeq(s, start + 1, end)

Min2(a, b) == IF a <= b THEN a ELSE b
Max2(a, b) == IF a >= b THEN a ELSE b

\* a slip: the range is cut from index(from) to index(to), whichever comes first
expandCellDirected(cell, termShortNames) ==
  LET from == cell.from
      to == cell.to
      startIndex == indexOf(termShortNames, from)
      endIndex == indexOf(termShortNames, to)
  IN  IF from = Undefined /\ to = Undefined THEN <<>>
      ELSE IF from # Undefined /\ from = to THEN <<from>>
      ELSE IF from # Undefined /\ to # Undefined /\ startIndex # -1 /\ endIndex # -1
        THEN slice(termShortNames, startIndex, endIndex + 1)
      ELSE IF from # Undefined /\ to = Undefined /\ startIndex # -1
        THEN slice(termShortNames, startIndex, Len(termShortNames))
      ELSE IF from = Undefined /\ to # Undefined /\ endIndex # -1
        THEN slice(termShortNames, 0, endIndex + 1)
      ELSE <<>>

\* a slip: the at-most slice stops before index(to)
expandCellExclusive(cell, termShortNames) ==
  LET from == cell.from
      to == cell.to
      startIndex == indexOf(termShortNames, from)
      endIndex == indexOf(termShortNames, to)
  IN  IF from = Undefined /\ to = Undefined THEN <<>>
      ELSE IF from # Undefined /\ from = to THEN <<from>>
      ELSE IF from # Undefined /\ to # Undefined /\ startIndex # -1 /\ endIndex # -1
        THEN slice(termShortNames, Min2(startIndex, endIndex),
                   Max2(startIndex, endIndex) + 1)
      ELSE IF from # Undefined /\ to = Undefined /\ startIndex # -1
        THEN slice(termShortNames, startIndex, Len(termShortNames))
      ELSE IF from = Undefined /\ to # Undefined /\ endIndex # -1
        THEN slice(termShortNames, 0, endIndex)
      ELSE <<>>

\* the body of the row.map callback of handleTransformToIntervals
expandCell(cell, termShortNames) ==
  LET from == cell.from
      to == cell.to
      startIndex == indexOf(termShortNames, from)
      endIndex == indexOf(termShortNames, to)
  IN  IF from = Undefined /\ to = Undefined THEN <<>>
      ELSE IF from # Undefined /\ from = to THEN <<from>>
      ELSE IF from # Undefined /\ to # Undefined /\ startIndex # -1 /\ endIndex # -1
        THEN slice(termShortNames, Min2(startIndex, endIndex),
                   Max2(startIndex, endIndex) + 1)
      ELSE IF from # Undefined /\ to = Undefined /\ startIndex # -1
        THEN slice(termShortNames, startIndex, Len(termShortNames))
      ELSE IF from = Undefined /\ to # Undefined /\ endIndex # -1
        THEN slice(termShortNames, 0, endIndex + 1)
      ELSE <<>>

\* ------------------------------------------------- trapezoidal aggregation
None == <<>>
Some(x) == <<x>>

Term(n, s, t) == [name |-> n, shortName |-> s, tri |-> t]
Trapeze(a, b, c, d) == [a |-> a, b |-> b, c |-> c, d |-> d]

\* allTerms.find((t) => t.shortName === shortName)?.tri, None when undefined
findTri(allTerms, shortName) ==
  IF \E i \in DOMAIN allTerms : allTerms[i].shortName = shortName
  THEN Some(allTerms[CHOOSE i \in DOMAIN allTerms :
                 /\ allTerms[i].shortName = shortName
                 /\ \A j \in 1..(i - 1) : allTerms[j].shortName # shortName].tri)
  ELSE None

\* a slip: the plateau is cut from the lefts and the rights
getTrapezeFromLTSetsOfSupport(ltShortNames, allTerms) ==
  LET found == [i \in DOMAIN ltShortNames |-> findTri(allTerms, ltShortNames[i])]
      IsSome(m) == m # None
      resolved == SelectSeq(found, IsSome)
      triangularTerms == [k \in DOMAIN resolved |-> resolved[k][1]]
      orderedTerms == [k \in DOMAIN triangularTerms |-> orderTriangular(triangularTerms[k])]
      lefts == [k \in DOMAIN orderedTerms |-> orderedTerms[k].left]
      rights == [k \in DOMAIN orderedTerms |-> orderedTerms[k].right]
  IN  IF Len(ltShortNames) = 0 THEN None
      ELSE IF Len(triangularTerms) = 0 THEN None
      ELSE Some(Trapeze(MathMin(lefts), MathMax(lefts),
                        MathMin(rights), MathMax(rights)))

\* lines 143-167 of App.tsx: the names are resolved, the unresolved dropped,
\* the triangular numbers ordered, and the envelope taken
getTrapezeFromLTSets(ltShortNames, allTerms) ==
  LET found == [i \in DOMAIN ltShortNames |-> findTri(allTerms, ltShortNames[i])]
      IsSome(m) == m # None
      resolved == SelectSeq(found, IsSome)
      triangularTerms == [k \in DOMAIN resolved |-> resolved[k][1]]
      orderedTerms == [k \in DOMAIN triangularTerms |-> orderTriangular(triangularTerms[k])]
      lefts == [k \in DOMAIN orderedTerms |-> orderedTerms[k].left]
      middles == [k \in DOMAIN orderedTerms |-> orderedTerms[k].middle]
      rights == [k \in DOMAIN orderedTerms |-> orderedTerms[k].right]
  IN  IF Len(ltShortNames) = 0 THEN None
      ELSE IF Len(triangularTerms) = 0 THEN None
      ELSE Some(Trapeze(MathMin(lefts), MathMin(middles),
                        MathMax(middles), MathMax(rights)))

\* --------------------------------------------------- alpha-cut and scoring
Interval(l, r) == [l |-> l, r |-> r]

\* a slip: the two ends of each side are interchanged
getIntervalSwapped(trapeze, al) ==
  Interval(FAdd(FMul(al, trapeze.a), FMul(FSub(One, al), trapeze.b)),
           FAdd(FMul(al, trapeze.d), FMul(FSub(One, al), trapeze.c)))

getIntervalFromTrapeze(trapeze, al) ==
  Interval(FAdd(FMul(al, trapeze.b), FMul(FSub(One, al), trapeze.a)),
           FAdd(FMul(al, trapeze.c), FMul(FSub(One, al), trapeze.d)))

\* a slip: an interval that starts at zero is not counted as dominant
calculateProbabilityStrict(interval) ==
  LET l == interval.l
      r == interval.r
  IN  IF Gt(l, 0) THEN One
      ELSE IF Le(r, 0) THEN 0
      ELSE IF Gt(r, l) THEN FDiv(r, FSub(r, l))
      ELSE 0

\* a slip: the part of the span below zero is measured instead of the part above
calculateProbabilityBelow(interval) ==
  LET l == interval.l
      r == interval.r
  IN  IF Ge(l, 0) THEN One
      ELSE IF Le(r, 0) THEN 0
      ELSE IF Gt(r, l) THEN FDiv(FSub(0, l), FSub(r, l))
      ELSE 0

\* App.tsx
calculateProbability(interval) ==
  LET l == interval.l
      r == interval.r
  IN  IF Ge(l, 0) THEN One
      ELSE IF Le(r, 0) THEN 0
      ELSE IF Gt(r, l) THEN FDiv(r, FSub(r, l))
      ELSE 0

\* a slip: the outer Math.max is left out
calculateProbabilityFormula3Unclamped(interval) ==
  LET l == interval.l
      r == interval.r
      num == FSub(One, l)
      den == FAdd(FSub(r, l), One)
  IN  IF IsNaN(num) \/ IsNaN(den) THEN NaN
      ELSE IF den = 0
        THEN (IF num > 0 THEN 0 ELSE IF num < 0 THEN One ELSE NaN)
      ELSE FSub(One, MathMax(<<FDiv(num, den), 0>>))

\* part_000: Math.max(1 - Math.max((1 - l) / (r - l + 1), 0), 0).  A zero
\* divisor makes the quotient +Infinity, -Infinity or NaN, which the two
\* Math.max turn into 0, 1 and NaN.
calculateProbabilityFormula3(interval) ==
  LET l == interval.l
      r == interval.r
      num == FSub(One, l)
      den == FAdd(FSub(r, l), One)
  IN  IF IsNaN(num) \/ IsNaN(den) THEN NaN
      ELSE IF den = 0
        THEN (IF num > 0 THEN 0 ELSE IF num < 0 THEN One ELSE NaN)
      ELSE MathMax(<<FSub(One, MathMax(<<FDiv(num, den), 0>>)), 0>>)

\* calculateProbability of the revision r
calculateProbabilityOf(r, interval) ==
  IF r = "App.tsx" THEN calculateProbability(interval)
  ELSE calculateProbabilityFormula3(interval)

\* ------------------------------------------------------------------- state
VARIABLES
  rev,                      \* which revision of the component is built
  numAlternatives, numCriterias, numLinguisticTerms, alpha,
  currentTermIndex, terms, currentPage, tableData, editingCell,
  isTransformedToIntervals, isTransformedToTrapeze, calculationMethod,
  internalIntervalLTSets, internalTrapezeMatrix,
  displayResults, bestProbability,
  console,                  \* the last message written to the console
  arg, res, pc              \* argument, result and position of a function under test

sessionVars ==
  <<numAlternatives, numCriterias, numLinguisticTerms, alpha,
    currentTermIndex, terms, currentPage, tableData, editingCell,
    isTransformedToIntervals, isTransformedToTrapeze, calculationMethod,
    internalIntervalLTSets, internalTrapezeMatrix,
    displayResults, bestProbability>>

fnVars == <<arg, res, pc>>

vars == <<rev, sessionVars, console, fnVars>>

Revisions == {"App.tsx", "part_000"}

\* the state of the component after its useState initialisers have run
InitSession ==
  /\ numAlternatives = 3
  /\ numCriterias = 3
  /\ numLinguisticTerms = 5
  /\ alpha = Half
  /\ currentTermIndex = 0
  /\ terms = <<>>
  /\ currentPage = "setup"
  /\ tableData = <<>>
  /\ editingCell = None
  /\ isTransformedToIntervals = FALSE
  /\ isTransformedToTrapeze = FALSE
  /\ calculationMethod = "generalized"
  /\ internalIntervalLTSets = <<>>
  /\ internalTrapezeMatrix = <<>>
  /\ displayResults = <<>>
  /\ bestProbability = None
  /\ console = "none"

\* ------------------------------------------------------------ setup page
MaxAlternatives == 3    \* largest number of alternatives a session is finished with
MaxCriterias == 3       \* largest number of criteria a session is finished with
MaxTerms == 2            \* longest registry a session builds

NameInputs == {"low"}
ShortNameInputs == {"L", "H"}
LeftInputs == {NaN, One}
TriFieldInputs == {NaN}
AlphaInputs == {0, Half, One}
CountInputs == 1..2

\* the placeholder term handlePrev, handleNext and upsertCurrentTerm seed
Placeholder == Term("", "", Tri(-Half, 0, Half))

\* the useEffect on terms.length: the index is clamped into the registry
ClampIndex(i, len) == Min2(Max2(0, i), Max2(0, len - 1))

\* terms[currentTermIndex] ?? the blank term
currentTerm ==
  IF currentTermIndex + 1 \in DOMAIN terms THEN terms[currentTermIndex + 1]
  ELSE Term("", "", Tri(NaN, NaN, NaN))

\* { ...t, ...partial }
Merge(t, partial) ==
  [f \in DOMAIN t |-> IF f \in DOMAIN partial THEN partial[f] ELSE t[f]]

evaluationVars ==
  <<tableData, editingCell, isTransformedToIntervals, isTransformedToTrapeze,
    calculationMethod, internalIntervalLTSets, internalTrapezeMatrix,
    displayResults, bestProbability>>

\* onChange of the three count fields and of the alpha field
setNumAlternatives ==
  /\ currentPage = "setup"
  /\ \E v \in CountInputs : numAlternatives' = Max2(1, v)
  /\ UNCHANGED <<rev, numCriterias, numLinguisticTerms, alpha, currentTermIndex,
                 terms, currentPage, evaluationVars, console, fnVars>>

setNumCriterias ==
  /\ currentPage = "setup"
  /\ \E v \in CountInputs : numCriterias' = Max2(1, v)
  /\ UNCHANGED <<rev, numAlternatives, numLinguisticTerms, alpha, currentTermIndex,
                 terms, currentPage, evaluationVars, console, fnVars>>

setNumLinguisticTerms ==
  /\ currentPage = "setup"
  /\ \E v \in CountInputs : numLinguisticTerms' = Max2(1, v)
  /\ UNCHANGED <<rev, numAlternatives, numCriterias, alpha, currentTermIndex,
                 terms, currentPage, evaluationVars, console, fnVars>>

setAlpha ==
  /\ currentPage = "setup"
  /\ \E v \in AlphaInputs : alpha' = Max2(0, Min2(One, v))
  /\ UNCHANGED <<rev, numAlternatives, numCriterias, numLinguisticTerms,
                 currentTermIndex, terms, currentPage, evaluationVars, console, fnVars>>

resetAll ==
  /\ currentPage = "setup"
  /\ numAlternatives' = 3
  /\ numCriterias' = 3
  /\ numLinguisticTerms' = 5
  /\ alpha' = Half
  /\ currentTermIndex' = 0
  /\ terms' = <<>>
  /\ currentPage' = "setup"
  /\ tableData' = <<>>
  /\ isTransformedToIntervals' = FALSE
  /\ isTransformedToTrapeze' = FALSE
  /\ internalIntervalLTSets' = <<>>
  /\ internalTrapezeMatrix' = <<>>
  /\ displayResults' = <<>>
  /\ bestProbability' = None
  /\ UNCHANGED <<rev, editingCell, calculationMethod, console, fnVars>>

\* a slip: Prev steps back without wrapping
handlePrevUnwrapped ==
  /\ currentPage = "setup"
  /\ IF Len(terms) = 0
       THEN /\ terms' = IF numLinguisticTerms > 0 THEN <<Placeholder>> ELSE terms
            /\ currentTermIndex' = ClampIndex(currentTermIndex, Len(terms'))
       ELSE /\ currentTermIndex' = currentTermIndex - 1
            /\ UNCHANGED terms
  /\ UNCHANGED <<rev, numAlternatives, numCriterias, numLinguisticTerms, alpha,
                 currentPage, evaluationVars, console, fnVars>>

handlePrev ==
  /\ currentPage = "setup"
  /\ IF Len(terms) = 0
       THEN /\ terms' = IF numLinguisticTerms > 0 THEN <<Placeholder>> ELSE terms
            /\ currentTermIndex' = ClampIndex(currentTermIndex, Len(terms'))
       ELSE /\ currentTermIndex' = (currentTermIndex - 1 + Len(terms)) % Len(terms)
            /\ UNCHANGED terms
  /\ UNCHANGED <<rev, numAlternatives, numCriterias, numLinguisticTerms, alpha,
                 currentPage, evaluationVars, console, fnVars>>

\* a slip: the new term is put in front of the registry
handleNextPrepending ==
  /\ currentPage = "setup"
  /\ IF Len(terms) = 0
       THEN /\ terms' = IF numLinguisticTerms > 0 THEN <<Placeholder>> ELSE terms
            /\ currentTermIndex' = ClampIndex(currentTermIndex, Len(terms'))
       ELSE IF currentTermIndex = Len(terms) - 1 /\ Len(terms) < numLinguisticTerms
       THEN /\ Len(terms) < MaxTerms
            /\ terms' = <<Placeholder>> \o terms
            /\ currentTermIndex' = ClampIndex(currentTermIndex + 1, Len(terms'))
       ELSE /\ currentTermIndex' = (currentTermIndex + 1) % Len(terms)
            /\ UNCHANGED terms
  /\ UNCHANGED <<rev, numAlternatives, numCriterias, numLinguisticTerms, alpha,
                 currentPage, evaluationVars, console, fnVars>>

handleNext ==
  /\ currentPage = "setup"
  /\ IF Len(terms) = 0
       THEN /\ terms' = IF numLinguisticTerms > 0 THEN <<Placeholder>> ELSE terms
            /\ currentTermIndex' = ClampIndex(currentTermIndex, Len(terms'))
       ELSE IF currentTermIndex = Len(terms) - 1 /\ Len(terms) < numLinguisticTerms
       THEN /\ Len(terms) < MaxTerms
            /\ terms' = Append(terms, Placeholder)
            /\ currentTermIndex' = ClampIndex(currentTermIndex + 1, Len(terms'))
       ELSE /\ currentTermIndex' = (currentTermIndex + 1) % Len(terms)
            /\ UNCHANGED terms
  /\ UNCHANGED <<rev, numAlternatives, numCriterias, numLinguisticTerms, alpha,
                 currentPage, evaluationVars, console, fnVars>>

\* onChange of the term selector
setCurrentTermIndex ==
  /\ currentPage = "setup"
  /\ \E i \in 0..(Len(terms) - 1) : currentTermIndex' = i
  /\ UNCHANGED <<rev, numAlternatives, numCriterias, numLinguisticTerms, alpha,
                 terms, currentPage, evaluationVars, console, fnVars>>

\* the updater of upsertCurrentTerm(partial), applied to the registry prev
upsert(prev, partial) ==
  IF Len(prev) = 0 /\ numLinguisticTerms > 0
    THEN <<Merge(Placeholder, partial)>>
  ELSE IF currentTermIndex >= Len(prev) /\ Len(prev) < numLinguisticTerms
    THEN Append(prev, Merge(Placeholder, partial))
  ELSE [idx \in DOMAIN prev |->
          IF idx - 1 = currentTermIndex THEN Merge(prev[idx], partial) ELSE prev[idx]]

upsertCurrentTerm(partial) ==
  /\ currentPage = "setup"
  /\ terms' = upsert(terms, partial)
  /\ Len(terms') <= MaxTerms
  /\ currentTermIndex' = ClampIndex(currentTermIndex, Len(terms'))
  /\ UNCHANGED <<rev, numAlternatives, numCriterias, numLinguisticTerms, alpha,
                 currentPage, evaluationVars, console, fnVars>>

\* onChange of the Name, Short name, Left, Middle and Right fields
editName == \E v \in NameInputs : upsertCurrentTerm([name |-> v])
editShortName == \E v \in ShortNameInputs : upsertCurrentTerm([shortName |-> v])
editLeft ==
  \E v \in LeftInputs :
    upsertCurrentTerm([tri |-> [currentTerm.tri EXCEPT !.left = v]])
editMiddle ==
  \E v \in TriFieldInputs :
    upsertCurrentTerm([tri |-> [currentTerm.tri EXCEPT !.middle = v]])
editRight ==
  \E v \in TriFieldInputs :
    upsertCurrentTerm([tri |-> [currentTerm.tri EXCEPT !.right = v]])

normalizeCurrentTerm ==
  LET t == currentTerm.tri
      normalized == orderTriangular(Tri(FDivInt(t.left, 100), FDivInt(t.middle, 100),
                                        FDivInt(t.right, 100)))
  IN  upsertCurrentTerm([tri |-> normalized])

EmptyTable(rows, cols) ==
  [i \in 1..rows |-> [j \in 1..cols |-> Cell(Undefined, Undefined)]]

handleFinish ==
  /\ currentPage = "setup"
  /\ numAlternatives <= MaxAlternatives
  /\ numCriterias <= MaxCriterias
  /\ tableData' = EmptyTable(numAlternatives, numCriterias)
  /\ currentPage' = "evaluation"
  /\ UNCHANGED <<rev, numAlternatives, numCriterias, numLinguisticTerms, alpha,
                 currentTermIndex, terms, editingCell, isTransformedToIntervals,
                 isTransformedToTrapeze, calculationMethod, internalIntervalLTSets,
                 internalTrapezeMatrix, displayResults, bestProbability,
                 console, fnVars>>

\* the left panel of the setup page: the settings of the session
SettingsNext ==
  \/ setNumAlternatives \/ setNumCriterias \/ setNumLinguisticTerms \/ setAlpha
  \/ resetAll \/ handleFinish

\* the right panel of the setup page: the editor of the registry, with the
\* one setting its handlers read (the number of linguistic terms)
SetupNext ==
  \/ setNumLinguisticTerms
  \/ resetAll \/ handlePrev \/ handleNext \/ setCurrentTermIndex
  \/ editName \/ editShortName \/ editLeft \/ editMiddle \/ editRight
  \/ normalizeCurrentTerm \/ handleFinish

InitSetup ==
  /\ rev \in Revisions
  /\ InitSession
  /\ arg = <<>>
  /\ res = <<>>
  /\ pc = "session"

SpecSetup == InitSetup /\ [][SetupNext]_vars
SpecSettings == InitSetup /\ [][SettingsNext]_vars

\* s.trim().length of the strings the Name and Short name fields receive
TrimmedLength(s) ==
  CASE s = "" -> 0
    [] s \in ShortNameInputs -> 1
    [] s \in NameInputs -> 3

isTriComplete(tri) == ~IsNaN(tri.left) /\ ~IsNaN(tri.middle) /\ ~IsNaN(tri.right)

\* the validation of the whole registry: the loop returns true at the first
\* term that fails a check or repeats a name or short name seen before it
hasAnyError ==
  \/ Len(terms) = 0
  \/ \E i \in DOMAIN terms :
        LET t == terms[i]
        IN  \/ TrimmedLength(t.name) < 3
            \/ TrimmedLength(t.shortName) = 0
            \/ \E k \in 1..(i - 1) :
                  terms[k].name = t.name \/ terms[k].shortName = t.shortName
            \/ ~isTriComplete(t.tri)
            \/ (t.tri.left = t.tri.middle /\ t.tri.middle = t.tri.right)

\* the invariants of the registry, term by term
TermValid(i) ==
  LET t == terms[i]
  IN  /\ TrimmedLength(t.name) >= 3
      /\ \A k \in DOMAIN terms : k # i => terms[k].name # t.name
      /\ TrimmedLength(t.shortName) > 0
      /\ \A k \in DOMAIN terms : k # i => terms[k].shortName # t.shortName
      /\ ~IsNaN(t.tri.left) /\ ~IsNaN(t.tri.middle) /\ ~IsNaN(t.tri.right)
      /\ ~(t.tri.left = t.tri.middle /\ t.tri.middle = t.tri.right)

RegistryValid == Len(terms) > 0 /\ \A i \in DOMAIN terms : TermValid(i)

\* C19: whenever the session has left the setup page (currentPage is
\* evaluation) the registry is non-empty and every term of it satisfies the
\* registry invariants: trimmed name of length >= 3 and unique, short name
\* non-empty and unique, three finite components, not left = middle = right.
C19_ValidPastSetup == currentPage = "evaluation" => RegistryValid

\* hasAnyError is exactly the negation of the registry invariants: the
\* validation exists, and the Finish button does not consult it
C19_ValidationMatches == hasAnyError <=> ~RegistryValid

\* C20: in every reachable state the registry holds at most the configured
\* number of terms, terms.length <= numLinguisticTerms, under any interleaving
\* of handleNext, handlePrev, upsertCurrentTerm and changes of the term count.
C20_TermsWithinCount == Len(terms) <= numLinguisticTerms

\* the registry never grows beyond the term count configured at that moment
C20_GrowthWithinCount ==
  [][Len(terms') > Len(terms) => Len(terms') <= numLinguisticTerms]_vars

\* C24: every term stored in the registry has a canonical triangular number:
\* in every reachable state each term with finite components satisfies
\* tri.left <= tri.middle <= tri.right.
C24_RegistryCanonical ==
  \A i \in DOMAIN terms :
    isTriComplete(terms[i].tri) =>
      Le(terms[i].tri.left, terms[i].tri.middle)
        /\ Le(terms[i].tri.middle, terms[i].tri.right)

\* what Normalize stores is canonical: the one place where a triangular
\* number is ordered on its way into the registry
C24_NormalizedCanonical ==
  [][(currentTermIndex + 1 \in DOMAIN terms /\ normalizeCurrentTerm) =>
       LET t == terms'[currentTermIndex + 1].tri
       IN  isTriComplete(t) => Le(t.left, t.middle) /\ Le(t.middle, t.right)]_vars

\* C27: term navigation is cyclic over the populated indices and keeps the
\* index in range: whenever the registry is non-empty,
\* 0 <= currentTermIndex < terms.length; handlePrev at index 0 moves to the
\* last index and handleNext at the last index of a full registry moves to
\* index 0; when the registry is empty and the target count is positive,
\* handlePrev or handleNext seeds exactly one placeholder term.
C27_Navigation ==
  /\ [](terms # <<>> => (0 <= currentTermIndex /\ currentTermIndex < Len(terms)))
  /\ [][/\ (terms # <<>> /\ currentTermIndex = 0 /\ handlePrev) =>
            (currentTermIndex' = Len(terms) - 1 /\ terms' = terms)
        /\ (terms # <<>> /\ currentTermIndex = Len(terms) - 1
              /\ Len(terms) = numLinguisticTerms /\ handleNext) =>
            (currentTermIndex' = 0 /\ terms' = terms)
        /\ (terms = <<>> /\ numLinguisticTerms > 0 /\ (handlePrev \/ handleNext)) =>
            (terms' = <<Placeholder>> /\ currentTermIndex' = 0)]_vars

\* a full registry of two terms, the second of them edited, with the editor
\* on the last index: Next wraps from here and Prev arrives here from index 0
C27_Witness ==
  /\ currentPage = "setup"
  /\ Len(terms) = 2
  /\ numLinguisticTerms = 2
  /\ currentTermIndex = 1
  /\ terms[2].shortName = "H"

\* C28: registry terms are never reordered or deleted once appended: every
\* operation other than a full reset leaves the registry as it is, or appends
\* one term at its end, or replaces the term at currentTermIndex, leaving
\* every other term at its place.
C28_NoReorderNoDelete ==
  [][\/ terms' = terms
     \/ /\ Len(terms') = Len(terms) + 1
        /\ \A i \in DOMAIN terms : terms'[i] = terms[i]
     \/ /\ Len(terms') = Len(terms)
        /\ \A i \in DOMAIN terms : i # currentTermIndex + 1 => terms'[i] = terms[i]
     \/ resetAll]_vars

\* a registry whose first term was amended after a second one was appended
\* behind it, and whose second term was amended too
C28_Witness ==
  /\ currentPage = "setup"
  /\ Len(terms) = 2
  /\ terms[1].name = "low" /\ terms[1].shortName = "L"
  /\ terms[2].name = "" /\ terms[2].shortName = "H"
  /\ currentTermIndex = 0

\* ------------------------------------------------------- evaluation page
MaxCells == 1           \* most cells (alternatives x criteria) of a judgment matrix

Rows == DOMAIN tableData
Cols(i) == DOMAIN tableData[i]

\* the options of the two selects of the cell dialog: None and every short name
modalOptions == {Undefined} \cup {terms[i].shortName : i \in DOMAIN terms}

handleCellClick ==
  /\ currentPage = "evaluation"
  /\ ~isTransformedToTrapeze
  /\ \E row \in Rows : \E col \in Cols(row) : editingCell' = Some(<<row, col>>)
  /\ UNCHANGED <<rev, numAlternatives, numCriterias, numLinguisticTerms, alpha,
                 currentTermIndex, terms, currentPage, tableData,
                 isTransformedToIntervals, isTransformedToTrapeze, calculationMethod,
                 internalIntervalLTSets, internalTrapezeMatrix, displayResults,
                 bestProbability, console, fnVars>>

\* Cancel and onClose of the cell dialog
closeModal ==
  /\ currentPage = "evaluation"
  /\ editingCell # None
  /\ editingCell' = None
  /\ UNCHANGED <<rev, numAlternatives, numCriterias, numLinguisticTerms, alpha,
                 currentTermIndex, terms, currentPage, tableData,
                 isTransformedToIntervals, isTransformedToTrapeze, calculationMethod,
                 internalIntervalLTSets, internalTrapezeMatrix, displayResults,
                 bestProbability, console, fnVars>>

\* Save of the cell dialog; modalFrom and modalTo are what the two selects hold
handleModalSave ==
  /\ currentPage = "evaluation"
  /\ editingCell # None
  /\ \E modalFrom \in modalOptions : \E modalTo \in modalOptions :
       tableData' = [tableData EXCEPT ![editingCell[1][1]][editingCell[1][2]] =
                       Cell(modalFrom, modalTo)]
  /\ editingCell' = None
  /\ UNCHANGED <<rev, numAlternatives, numCriterias, numLinguisticTerms, alpha,
                 currentTermIndex, terms, currentPage,
                 isTransformedToIntervals, isTransformedToTrapeze, calculationMethod,
                 internalIntervalLTSets, internalTrapezeMatrix, displayResults,
                 bestProbability, console, fnVars>>

isAllCellsFilled ==
  \A i \in Rows : \A j \in Cols(i) :
    tableData[i][j].from # Undefined \/ tableData[i][j].to # Undefined

termShortNamesOf(ts) == [i \in DOMAIN ts |-> ts[i].shortName]

\* a slip: the transformation runs whether or not it is ready
handleTransformToIntervalsUnguarded ==
  /\ currentPage = "evaluation"
  /\ internalIntervalLTSets' =
       [i \in Rows |-> [j \in Cols(i) |->
          expandCell(tableData[i][j], termShortNamesOf(terms))]]
  /\ isTransformedToIntervals' = TRUE
  /\ isTransformedToTrapeze' = FALSE
  /\ displayResults' = <<>>
  /\ bestProbability' = None
  /\ UNCHANGED <<rev, numAlternatives, numCriterias, numLinguisticTerms, alpha,
                 currentTermIndex, terms, currentPage, tableData, editingCell,
                 calculationMethod, internalTrapezeMatrix, console, fnVars>>

handleTransformToIntervals ==
  /\ currentPage = "evaluation"
  /\ IF ~isAllCellsFilled \/ Len(terms) = 0
       THEN /\ console' = "Cannot transform: Not all cells are filled or linguistic terms are missing."
            /\ UNCHANGED <<sessionVars>>
       ELSE /\ internalIntervalLTSets' =
                 [i \in Rows |-> [j \in Cols(i) |->
                    expandCell(tableData[i][j], termShortNamesOf(terms))]]
            /\ isTransformedToIntervals' = TRUE
            /\ isTransformedToTrapeze' = FALSE
            /\ displayResults' = <<>>
            /\ bestProbability' = None
            /\ UNCHANGED <<numAlternatives, numCriterias, numLinguisticTerms, alpha,
                           currentTermIndex, terms, currentPage, tableData,
                           editingCell, calculationMethod, internalTrapezeMatrix,
                           console>>
  /\ UNCHANGED <<rev, fnVars>>

\* a slip: the neutral value spans the whole scale
WholeScaleTrapeze == Trapeze(-One, 0, 0, One)

ZeroTrapeze == Trapeze(0, 0, 0, 0)

\* a slip: the step flips the stage flag instead of setting it
handleTransformToTrapezeToggling ==
  /\ currentPage = "evaluation"
  /\ IF ~isTransformedToIntervals \/ Len(internalIntervalLTSets) = 0
       THEN /\ console' = "Must transform to intervals first."
            /\ UNCHANGED <<sessionVars>>
       ELSE /\ internalTrapezeMatrix' =
                 [i \in DOMAIN internalIntervalLTSets |->
                   [j \in DOMAIN internalIntervalLTSets[i] |->
                     LET trapeze == getTrapezeFromLTSets(internalIntervalLTSets[i][j], terms)
                     IN  IF trapeze = None THEN ZeroTrapeze ELSE trapeze[1]]]
            /\ isTransformedToTrapeze' = ~isTransformedToTrapeze
            /\ displayResults' = <<>>
            /\ bestProbability' = None
            /\ UNCHANGED <<numAlternatives, numCriterias, numLinguisticTerms, alpha,
                           currentTermIndex, terms, currentPage, tableData,
                           editingCell, isTransformedToIntervals, calculationMethod,
                           internalIntervalLTSets, console>>
  /\ UNCHANGED <<rev, fnVars>>

handleTransformToTrapeze ==
  /\ currentPage = "evaluation"
  /\ IF ~isTransformedToIntervals \/ Len(internalIntervalLTSets) = 0
       THEN /\ console' = "Must transform to intervals first."
            /\ UNCHANGED <<sessionVars>>
       ELSE /\ internalTrapezeMatrix' =
                 [i \in DOMAIN internalIntervalLTSets |->
                   [j \in DOMAIN internalIntervalLTSets[i] |->
                     LET trapeze == getTrapezeFromLTSets(internalIntervalLTSets[i][j], terms)
                     IN  IF trapeze = None THEN ZeroTrapeze ELSE trapeze[1]]]
            /\ isTransformedToTrapeze' = TRUE
            /\ displayResults' = <<>>
            /\ bestProbability' = None
            /\ UNCHANGED <<numAlternatives, numCriterias, numLinguisticTerms, alpha,
                           currentTermIndex, terms, currentPage, tableData,
                           editingCell, isTransformedToIntervals, calculationMethod,
                           internalIntervalLTSets, console>>
  /\ UNCHANGED <<rev, fnVars>>

Methods == {"generalized", "pessimistic", "optimistic"}

\* a slip: the change of method reverts the stage as well
handleCalculationMethodChangeReverting ==
  /\ currentPage = "evaluation"
  /\ \E m \in Methods : calculationMethod' = m
  /\ displayResults' = <<>>
  /\ bestProbability' = None
  /\ isTransformedToTrapeze' = FALSE
  /\ UNCHANGED <<rev, numAlternatives, numCriterias, numLinguisticTerms, alpha,
                 currentTermIndex, terms, currentPage, tableData, editingCell,
                 isTransformedToIntervals,
                 internalIntervalLTSets, internalTrapezeMatrix, console, fnVars>>

\* a slip: the best probability outlives the results it was taken from
handleCalculationMethodChangeKeepingBest ==
  /\ currentPage = "evaluation"
  /\ \E m \in Methods : calculationMethod' = m
  /\ displayResults' = <<>>
  /\ UNCHANGED <<rev, numAlternatives, numCriterias, numLinguisticTerms, alpha,
                 currentTermIndex, terms, currentPage, tableData, editingCell,
                 isTransformedToIntervals, isTransformedToTrapeze, bestProbability,
                 internalIntervalLTSets, internalTrapezeMatrix, console, fnVars>>

handleCalculationMethodChange ==
  /\ currentPage = "evaluation"
  /\ \E m \in Methods : calculationMethod' = m
  /\ displayResults' = <<>>
  /\ bestProbability' = None
  /\ UNCHANGED <<rev, numAlternatives, numCriterias, numLinguisticTerms, alpha,
                 currentTermIndex, terms, currentPage, tableData, editingCell,
                 isTransformedToIntervals, isTransformedToTrapeze,
                 internalIntervalLTSets, internalTrapezeMatrix, console, fnVars>>

\* row.reduce((acc, T) => acc + T, 0) over one component of a row
RECURSIVE SumFrom(_, _, _)
SumFrom(xs, k, acc) ==
  IF k > Len(xs) THEN acc ELSE SumFrom(xs, k + 1, FAdd(acc, xs[k]))

Column(row, f) == [j \in DOMAIN row |-> row[j][f]]

\* App.tsx: the components of the row are averaged
averageTrapeze(row, n) ==
  Trapeze(FDivInt(SumFrom(Column(row, "a"), 1, 0), n),
          FDivInt(SumFrom(Column(row, "b"), 1, 0), n),
          FDivInt(SumFrom(Column(row, "c"), 1, 0), n),
          FDivInt(SumFrom(Column(row, "d"), 1, 0), n))

\* a slip: the inner edges are taken the wrong way round
combinedTrapezeCore(row) ==
  Trapeze(MathMin(Column(row, "a")), MathMax(Column(row, "b")),
          MathMin(Column(row, "c")), MathMax(Column(row, "d")))

\* part_000: the envelope of the row
combinedTrapeze(row) ==
  Trapeze(MathMin(Column(row, "a")), MathMin(Column(row, "b")),
          MathMax(Column(row, "c")), MathMax(Column(row, "d")))

\* a slip: the pessimistic right end is the greatest one
finalIntervalOfWidest(r, method, trapezes, n, al) ==
  LET intervalsForAlternative ==
        [j \in DOMAIN trapezes |-> getIntervalFromTrapeze(trapezes[j], al)]
  IN  IF method = "generalized"
        THEN getIntervalFromTrapeze(
               IF r = "App.tsx" THEN averageTrapeze(trapezes, n)
               ELSE combinedTrapeze(trapezes), al)
      ELSE IF method = "pessimistic"
        THEN Interval(MathMin(Column(intervalsForAlternative, "l")),
                      MathMax(Column(intervalsForAlternative, "r")))
      ELSE Interval(MathMax(Column(intervalsForAlternative, "l")),
                    MathMax(Column(intervalsForAlternative, "r")))

\* a slip: the optimistic left end is the least one
finalIntervalOfLeftmost(r, method, trapezes, n, al) ==
  LET intervalsForAlternative ==
        [j \in DOMAIN trapezes |-> getIntervalFromTrapeze(trapezes[j], al)]
  IN  IF method = "generalized"
        THEN getIntervalFromTrapeze(
               IF r = "App.tsx" THEN averageTrapeze(trapezes, n)
               ELSE combinedTrapeze(trapezes), al)
      ELSE IF method = "pessimistic"
        THEN Interval(MathMin(Column(intervalsForAlternative, "l")),
                      MathMin(Column(intervalsForAlternative, "r")))
      ELSE Interval(MathMin(Column(intervalsForAlternative, "l")),
                    MathMax(Column(intervalsForAlternative, "r")))

\* the interval the loop body of handleCalculateMethod scores for one row
finalIntervalOf(r, method, trapezes, n, al) ==
  LET intervalsForAlternative ==
        [j \in DOMAIN trapezes |-> getIntervalFromTrapeze(trapezes[j], al)]
  IN  IF method = "generalized"
        THEN getIntervalFromTrapeze(
               IF r = "App.tsx" THEN averageTrapeze(trapezes, n)
               ELSE combinedTrapeze(trapezes), al)
      ELSE IF method = "pessimistic"
        THEN Interval(MathMin(Column(intervalsForAlternative, "l")),
                      MathMin(Column(intervalsForAlternative, "r")))
      ELSE Interval(MathMax(Column(intervalsForAlternative, "l")),
                    MathMax(Column(intervalsForAlternative, "r")))

\* results[i] after the loop body: {} for a skipped row
resultOf(r, method, trapezes, n, al) ==
  IF n = 0 \/ Len(trapezes) = 0 THEN <<>>
  ELSE LET finalInterval == finalIntervalOf(r, method, trapezes, n, al)
           probability == calculateProbabilityOf(r, finalInterval)
       IN  IF method = "generalized"
             THEN [genInterval |-> finalInterval, genProbability |-> probability]
           ELSE IF method = "pessimistic"
             THEN [pessInterval |-> finalInterval, pessProbability |-> probability]
           ELSE [optInterval |-> finalInterval, optProbability |-> probability]

\* the probability of a result under the method, None for a skipped row
probabilityOf(result, method) ==
  IF method = "generalized" /\ "genProbability" \in DOMAIN result
    THEN Some(result.genProbability)
  ELSE IF method = "pessimistic" /\ "pessProbability" \in DOMAIN result
    THEN Some(result.pessProbability)
  ELSE IF method = "optimistic" /\ "optProbability" \in DOMAIN result
    THEN Some(result.optProbability)
  ELSE None

\* maxProbability after rows 1..k: starts at -1, raised by probability > max
RECURSIVE maxProbabilityUpTo(_, _, _)
maxProbabilityUpTo(results, method, k) ==
  IF k = 0 THEN -One
  ELSE LET before == maxProbabilityUpTo(results, method, k - 1)
           p == probabilityOf(results[k], method)
       IN  IF p # None /\ Gt(p[1], before) THEN p[1] ELSE before

\* the array results when the loop of handleCalculateMethod has ended
results(r, method, matrix, nAlt, nCrit, al) ==
  [i \in 1..nAlt |-> resultOf(r, method, matrix[i], nCrit, al)]

\* x === y on numbers
StrictEq(x, y) == ~IsNaN(x) /\ ~IsNaN(y) /\ x = y

\* the Result cell of a row shows bestProbability: the row is marked a winner
isWinner(result, method, best) ==
  LET p == probabilityOf(result, method)
  IN  p # None /\ best # None /\ StrictEq(p[1], best[1])

handleCalculateMethod ==
  /\ currentPage = "evaluation"
  /\ IF ~isTransformedToTrapeze \/ Len(internalTrapezeMatrix) = 0
       THEN /\ console' = "Trapeze matrix is not ready. Run transformation first."
            /\ UNCHANGED <<sessionVars>>
       ELSE /\ displayResults' =
                 results(rev, calculationMethod, internalTrapezeMatrix,
                         numAlternatives, numCriterias, alpha)
            /\ bestProbability' =
                 Some(maxProbabilityUpTo(displayResults', calculationMethod,
                                         numAlternatives))
            /\ console' = IF rev = "part_000"
                             THEN "Calculating with method: " \o calculationMethod
                           ELSE console
            /\ UNCHANGED <<numAlternatives, numCriterias, numLinguisticTerms, alpha,
                           currentTermIndex, terms, currentPage, tableData,
                           editingCell, isTransformedToIntervals,
                           isTransformedToTrapeze, calculationMethod,
                           internalIntervalLTSets, internalTrapezeMatrix>>
  /\ UNCHANGED <<rev, fnVars>>

EvaluationNext ==
  \/ handleCellClick \/ closeModal \/ handleModalSave
  \/ handleTransformToIntervals \/ handleTransformToTrapeze
  \/ handleCalculationMethodChange \/ handleCalculateMethod

\* registries a session is finished with: a scale of two terms the second
\* of which is stored unordered, one with a blank field, and none at all
SessionRegistries ==
  {<<Term("low", "L", Tri(-Half, 0, Half)), Term("high", "H", Tri(One, 0, Half))>>,
   <<Term("low", "L", Tri(-Half, NaN, Half)), Term("high", "H", Tri(-Half, 0, Half))>>,
   <<>>}

\* the states handleFinish leaves: the registry, the counts and alpha as the
\* setup page set them, an empty judgment matrix, nothing derived
Init ==
  /\ rev \in Revisions
  /\ terms \in SessionRegistries
  /\ numAlternatives \in 1..MaxCells
  /\ numCriterias \in 1..MaxCells
  /\ numAlternatives * numCriterias <= MaxCells
  /\ numLinguisticTerms = 5
  /\ alpha \in AlphaInputs
  /\ currentTermIndex = 0
  /\ currentPage = "evaluation"
  /\ tableData = EmptyTable(numAlternatives, numCriterias)
  /\ editingCell = None
  /\ isTransformedToIntervals = FALSE
  /\ isTransformedToTrapeze = FALSE
  /\ calculationMethod = "generalized"
  /\ internalIntervalLTSets = <<>>
  /\ internalTrapezeMatrix = <<>>
  /\ displayResults = <<>>
  /\ bestProbability = None
  /\ console = "none"
  /\ arg = <<>>
  /\ res = <<>>
  /\ pc = "session"

Next == EvaluationNext

Spec == Init /\ [][Next]_vars

\* --------------------------- evaluation page, the buttons as they are rendered
\* a slip: the button stays enabled after the expansion
clickTransformToIntervalsAgain ==
  /\ isAllCellsFilled
  /\ handleTransformToIntervals

\* Transform to intervals: disabled={!isAllCellsFilled() || isTransformedToIntervals}
clickTransformToIntervals ==
  /\ isAllCellsFilled
  /\ ~isTransformedToIntervals
  /\ handleTransformToIntervals

\* Transform to trapeze: disabled={!isTransformedToIntervals || isTransformedToTrapeze}
clickTransformToTrapeze ==
  /\ isTransformedToIntervals
  /\ ~isTransformedToTrapeze
  /\ handleTransformToTrapeze

\* Calculate method: disabled={!isTransformedToTrapeze}
clickCalculateMethod ==
  /\ isTransformedToTrapeze
  /\ handleCalculateMethod

NextUI ==
  \/ handleCellClick \/ closeModal \/ handleModalSave
  \/ clickTransformToIntervals \/ clickTransformToTrapeze
  \/ handleCalculationMethodChange \/ clickCalculateMethod

SpecUI == Init /\ [][NextUI]_vars

\* C16: in every reachable state where isTransformedToIntervals is true, no
\* handleCellClick or handleModalSave changes the judgment matrix.
C16_NoEditAfterExpansion ==
  [][isTransformedToIntervals => tableData' = tableData]_vars

\* Setup < AwaitingJudgments < IntervalsExpanded < TrapezoidsAggregated < Scored
Stage ==
  IF currentPage = "setup" THEN 0
  ELSE IF displayResults # <<>> THEN 4
  ELSE IF isTransformedToTrapeze THEN 3
  ELSE IF isTransformedToIntervals THEN 2
  ELSE 1

\* C17: the session stage never moves to an earlier stage under any handler
\* invocation, apart from results being cleared by a method change.
C17_StageNeverEarlier ==
  [][\/ Stage' >= Stage
     \/ /\ handleCalculationMethodChange
        /\ Stage = 4
        /\ Stage' = 3]_vars

\* a session that went through every stage and was scored under a method
\* chosen on the way
C17_Witness ==
  /\ Stage = 4
  /\ calculationMethod = "pessimistic"
  /\ console = "Calculating with method: pessimistic"

\* what the current inputs expand, aggregate and score to
ExpansionOfMatrix ==
  [i \in Rows |-> [j \in Cols(i) |->
     expandCell(tableData[i][j], termShortNamesOf(terms))]]

AggregationOfIntervals ==
  [i \in DOMAIN internalIntervalLTSets |->
    [j \in DOMAIN internalIntervalLTSets[i] |->
      LET trapeze == getTrapezeFromLTSets(internalIntervalLTSets[i][j], terms)
      IN  IF trapeze = None THEN ZeroTrapeze ELSE trapeze[1]]]

ScoresOfTrapezes ==
  results(rev, calculationMethod, internalTrapezeMatrix,
          numAlternatives, numCriterias, alpha)

\* C18: in every reachable state, interval sets marked computed equal the
\* expansion of the current judgment matrix over the current registry, a
\* trapezoid matrix marked computed equals the aggregation of the current
\* interval sets, and non-empty results equal the scores of the current
\* trapezoid matrix under the current method and alpha.
C18_NoStaleData ==
  /\ isTransformedToIntervals => internalIntervalLTSets = ExpansionOfMatrix
  /\ isTransformedToTrapeze => internalTrapezeMatrix = AggregationOfIntervals
  /\ displayResults # <<>> => displayResults = ScoresOfTrapezes

\* the two downstream parts of C18, which no cell edit reaches
C18_NoStaleDataDownstream ==
  /\ isTransformedToTrapeze => internalTrapezeMatrix = AggregationOfIntervals
  /\ displayResults # <<>> => displayResults = ScoresOfTrapezes

\* a cell of the judgment matrix has neither from nor to
SomeCellUnfilled ==
  \E i \in DOMAIN tableData : \E j \in DOMAIN tableData[i] :
    tableData[i][j] = Cell(Undefined, Undefined)

\* C6: a pipeline step invoked with its precondition unmet leaves every
\* session variable unchanged: handleTransformToIntervals when some cell has
\* neither from nor to or the registry is empty, handleTransformToTrapeze
\* when the intervals have not been expanded, handleCalculateMethod when the
\* trapezoid matrix has not been computed.
C6_RefusedStepChangesNothing ==
  [][/\ ((SomeCellUnfilled \/ terms = <<>>) /\ handleTransformToIntervals)
          => UNCHANGED sessionVars
     /\ (~isTransformedToIntervals /\ handleTransformToTrapeze)
          => UNCHANGED sessionVars
     /\ (~isTransformedToTrapeze /\ handleCalculateMethod)
          => UNCHANGED sessionVars]_vars

\* the expansion was refused on a matrix a cell of which was cleared after
\* an earlier expansion, whose intervals are still stored
C6_Witness ==
  /\ console = "Cannot transform: Not all cells are filled or linguistic terms are missing."
  /\ SomeCellUnfilled
  /\ terms # <<>>
  /\ isTransformedToIntervals
  /\ internalIntervalLTSets # <<>>

\* C15: changing the aggregation method while results are present clears
\* displayResults and bestProbability and leaves the stage flags, the
\* interval sets, the trapezoid matrix, the judgment matrix and the registry
\* unchanged.
C15_MethodChangeClearsResultsOnly ==
  [][(displayResults # <<>> /\ handleCalculationMethodChange) =>
       /\ displayResults' = <<>>
       /\ bestProbability' = None
       /\ UNCHANGED <<isTransformedToIntervals, isTransformedToTrapeze,
                      internalIntervalLTSets, internalTrapezeMatrix,
                      tableData, terms>>]_vars

\* the scores computed under the generalized method are gone after the
\* method was changed, and the trapezoid matrix they came from is still there
C15_Witness ==
  /\ console = "Calculating with method: generalized"
  /\ calculationMethod = "optimistic"
  /\ displayResults = <<>>
  /\ bestProbability = None
  /\ isTransformedToTrapeze
  /\ internalTrapezeMatrix # <<>>

\* the expansion has been applied and the judgment matrix and the registry
\* are as it found them
IntervalsApplied ==
  /\ isTransformedToIntervals
  /\ isAllCellsFilled
  /\ terms # <<>>
  /\ internalIntervalLTSets = ExpansionOfMatrix

\* the aggregation has been applied and the interval sets are as it found them
TrapezeApplied ==
  /\ isTransformedToIntervals
  /\ isTransformedToTrapeze
  /\ internalIntervalLTSets # <<>>
  /\ internalTrapezeMatrix = AggregationOfIntervals

\* C23: handleTransformToIntervals invoked on a state in which it has already
\* been applied, with judgment matrix and registry unchanged, yields the state
\* its first invocation yielded (the same interval sets, isTransformedToIntervals
\* set, isTransformedToTrapeze unset, no results, nothing else touched), and
\* likewise handleTransformToTrapeze on unchanged interval sets (the same
\* trapezoid matrix, both flags set, no results, nothing else touched).
C23_RecomputeIdempotent ==
  [][/\ (IntervalsApplied /\ handleTransformToIntervals) =>
          /\ internalIntervalLTSets' = internalIntervalLTSets
          /\ isTransformedToIntervals' /\ ~isTransformedToTrapeze'
          /\ displayResults' = <<>> /\ bestProbability' = None
          /\ UNCHANGED <<numAlternatives, numCriterias, numLinguisticTerms, alpha,
                         currentTermIndex, terms, currentPage, tableData,
                         editingCell, calculationMethod, internalTrapezeMatrix>>
     /\ (TrapezeApplied /\ handleTransformToTrapeze) =>
          /\ internalTrapezeMatrix' = internalTrapezeMatrix
          /\ isTransformedToIntervals' /\ isTransformedToTrapeze'
          /\ displayResults' = <<>> /\ bestProbability' = None
          /\ UNCHANGED <<numAlternatives, numCriterias, numLinguisticTerms, alpha,
                         currentTermIndex, terms, currentPage, tableData,
                         editingCell, calculationMethod, internalIntervalLTSets>>]_vars

\* a session in which both steps have been applied to a range judgment over
\* two terms and nothing upstream has changed since: either step can be asked
\* again in this state
C23_Witness ==
  /\ IntervalsApplied
  /\ TrapezeApplied
  /\ Len(terms) = 2
  /\ tableData[1][1] = Cell("H", "L")
  /\ internalIntervalLTSets = <<<<<<"L", "H">>>>>>
  /\ displayResults = <<>>

\* the matrix m has the rows and columns of the judgment matrix
ShapedAsTable(m) ==
  /\ DOMAIN m = DOMAIN tableData
  /\ \A i \in DOMAIN m : DOMAIN m[i] = DOMAIN tableData[i]

\* C30: the stage flags and the derived data are mutually consistent in every
\* reachable state: isTransformedToTrapeze implies isTransformedToIntervals; a
\* non-empty displayResults implies isTransformedToTrapeze; bestProbability is
\* null exactly when displayResults is empty; and the interval-set matrix and
\* the trapezoid matrix, when computed, have the dimensions of the judgment
\* matrix.
C30_FlagsAndDataConsistent ==
  /\ isTransformedToTrapeze => isTransformedToIntervals
  /\ displayResults # <<>> => isTransformedToTrapeze
  /\ bestProbability = None <=> displayResults = <<>>
  /\ isTransformedToIntervals => ShapedAsTable(internalIntervalLTSets)
  /\ isTransformedToTrapeze => ShapedAsTable(internalTrapezeMatrix)

\* a scored session: both flags set, results and a best probability present,
\* one result for each row of the judgment matrix
C30_Witness ==
  /\ isTransformedToIntervals /\ isTransformedToTrapeze
  /\ displayResults # <<>> /\ bestProbability # None
  /\ Len(displayResults) = Len(tableData)
  /\ calculationMethod = "optimistic"
  /\ "optProbability" \in DOMAIN displayResults[1]

\* ------------------------------------------------- orderTriangular, applied
Floats(lo, hi) == {RoundRat(i, 1) : i \in lo..hi}

TriInputs == Floats(-TriRange, TriRange)

InitTri ==
  /\ rev = "App.tsx"
  /\ InitSession
  /\ arg \in {Tri(x, y, z) : x \in TriInputs, y \in TriInputs, z \in TriInputs}
  /\ res = <<>>
  /\ pc = "start"

\* canonicalize(t)
CallOrder ==
  /\ pc = "start"
  /\ res' = <<orderTriangular(arg)>>
  /\ pc' = "once"
  /\ UNCHANGED <<rev, sessionVars, console, arg>>

\* canonicalize(canonicalize(t))
CallOrderAgain ==
  /\ pc = "once"
  /\ res' = Append(res, orderTriangular(res[1]))
  /\ pc' = "twice"
  /\ UNCHANGED <<rev, sessionVars, console, arg>>

NextTri == CallOrder \/ CallOrderAgain

SpecTri == InitTri /\ [][NextTri]_vars

\* C1: for every triple of finite numbers orderTriangular returns
\* left <= middle <= right, and orderTriangular of its own output is that
\* output unchanged.
C1_OrderedAndIdempotent ==
  pc = "twice" =>
    /\ Le(res[1].left, res[1].middle) /\ Le(res[1].middle, res[1].right)
    /\ res[2] = res[1]

\* the half of C1 that the clamp secures
C1_Ordered ==
  pc \in {"once", "twice"} =>
    Le(res[1].left, res[1].middle) /\ Le(res[1].middle, res[1].right)

Bag3(t) == [v \in {t.left, t.middle, t.right} |->
              Cardinality({f \in {"left", "middle", "right"} : t[f] = v})]

\* C2: the multiset {left, middle, right} of the output of orderTriangular
\* equals the multiset of the three input values.
C2_Permutation ==
  pc \in {"once", "twice"} => Bag3(res[1]) = Bag3(arg)

\* ------------------------------------------------ interval expansion, applied
MaxRegistry == 3        \* longest registry handed to the expansion of one cell

\* handleTransformToIntervals expands cells only when terms.length > 0

RegistryNames == {"", "A", "B", "C"}
CellNames == {Undefined, "A", "B", "C", "X"}      \* "X" is in no registry

\* the non-empty sequences over S of length at most n
SeqsUpTo(S, n) == UNION {[1..k -> S] : k \in 1..n}

InitExpand ==
  /\ rev = "App.tsx"
  /\ InitSession
  /\ arg \in {[cell |-> Cell(f, t), termShortNames |-> names] :
                f \in CellNames, t \in CellNames,
                names \in SeqsUpTo(RegistryNames, MaxRegistry)}
  /\ res = <<>>
  /\ pc = "start"

CallExpand ==
  /\ pc = "start"
  /\ res' = expandCell(arg.cell, arg.termShortNames)
  /\ pc' = "done"
  /\ UNCHANGED <<rev, sessionVars, console, arg>>

NextExpand == CallExpand

SpecExpand == InitExpand /\ [][NextExpand]_vars

\* p is the registry position (1-based) at which name x is found
FoundAt(names, x, p) ==
  /\ p \in DOMAIN names
  /\ names[p] = x
  /\ \A j \in 1..(p - 1) : names[j] # x

Found(names, x) == \E p \in DOMAIN names : names[p] = x

\* C3: a cell with from and to set, from # to, both found at registry
\* positions p and q, expands to exactly the registry slice
\* [min(p,q) .. max(p,q)], of length max(p,q) - min(p,q) + 1, whichever of
\* from and to comes first in the registry.
C3_RangeSlice ==
  (pc = "done" /\ arg.cell.from # Undefined /\ arg.cell.to # Undefined
     /\ arg.cell.from # arg.cell.to) =>
    \A p, q \in DOMAIN arg.termShortNames :
      (FoundAt(arg.termShortNames, arg.cell.from, p)
         /\ FoundAt(arg.termShortNames, arg.cell.to, q)) =>
        /\ Len(res) = Max2(p, q) - Min2(p, q) + 1
        /\ \A k \in 1..Len(res) : res[k] = arg.termShortNames[Min2(p, q) + k - 1]

\* a range whose from lies after its to in the registry, two places apart
C3_Witness ==
  /\ pc = "done"
  /\ arg.cell.from # Undefined /\ arg.cell.to # Undefined
  /\ arg.cell.from # arg.cell.to
  /\ \E p, q \in DOMAIN arg.termShortNames :
       /\ FoundAt(arg.termShortNames, arg.cell.from, p)
       /\ FoundAt(arg.termShortNames, arg.cell.to, q)
       /\ p = q + 2
  /\ Len(res) = 3

\* C4: a one-sided cell whose name is found at position p expands, with only
\* from set, to the registry slice from p to the last term, and with only to
\* set, to the registry slice from the first term to p.
C4_OneSided ==
  pc = "done" =>
    \A p \in DOMAIN arg.termShortNames :
      /\ (arg.cell.from # Undefined /\ arg.cell.to = Undefined
            /\ FoundAt(arg.termShortNames, arg.cell.from, p)) =>
           res = [k \in 1..(Len(arg.termShortNames) - p + 1) |->
                    arg.termShortNames[p + k - 1]]
      /\ (arg.cell.from = Undefined /\ arg.cell.to # Undefined
            /\ FoundAt(arg.termShortNames, arg.cell.to, p)) =>
           res = [k \in 1..p |-> arg.termShortNames[k]]

\* an at-most cell whose name is the middle one of three
C4_Witness ==
  /\ pc = "done"
  /\ arg.cell.from = Undefined /\ arg.cell.to # Undefined
  /\ Len(arg.termShortNames) = 3
  /\ FoundAt(arg.termShortNames, arg.cell.to, 2)
  /\ Len(res) = 2

\* C5: whatever the shape of the cell (crisp, range, at-least, at-most), if
\* a short name it refers to is not found in the registry the expansion is
\* the empty sequence; an unfilled cell expands to the empty sequence too.
C5_UnresolvedEmpty ==
  (pc = "done"
     /\ \/ arg.cell.from = Undefined /\ arg.cell.to = Undefined
        \/ arg.cell.from # Undefined /\ ~Found(arg.termShortNames, arg.cell.from)
        \/ arg.cell.to # Undefined /\ ~Found(arg.termShortNames, arg.cell.to))
    => res = <<>>

\* C5 without the crisp shape, which the code answers without a lookup
C5_UnresolvedEmptyUnlessCrisp ==
  (pc = "done" /\ arg.cell.from # arg.cell.to
     /\ \/ arg.cell.from # Undefined /\ ~Found(arg.termShortNames, arg.cell.from)
        \/ arg.cell.to # Undefined /\ ~Found(arg.termShortNames, arg.cell.to))
    => res = <<>>

\* -------------------------------------------- trapezoidal aggregation, applied
MaxAggTerms == 2        \* longest registry handed to getTrapezeFromLTSets
MaxAggNames == 2        \* longest term-name sequence of one cell

\* triangular numbers as a registry can hold them: ordered, unordered, and
\* with a field left blank (NaN)
TriSamples ==
  {Tri(-One, -Half, 0), Tri(-Half, 0, Half), Tri(0, Half, One),
   Tri(Half, -Half, 0), Tri(0, One, Half), Tri(One, 0, -One),
   Tri(NaN, 0, Half), Tri(-Half, NaN, Half)}

AggTerms == {Term("term", s, t) : s \in {"A", "B"}, t \in TriSamples}

InitTrapeze ==
  /\ rev = "App.tsx"
  /\ InitSession
  /\ arg \in {[ltShortNames |-> names, allTerms |-> ts] :
                names \in SeqsUpTo({"A", "B", "X"}, MaxAggNames) \cup {<<>>},
                ts \in SeqsUpTo(AggTerms, MaxAggTerms)}
  /\ res = <<>>
  /\ pc = "start"

CallTrapeze ==
  /\ pc = "start"
  /\ res' = getTrapezeFromLTSets(arg.ltShortNames, arg.allTerms)
  /\ pc' = "done"
  /\ UNCHANGED <<rev, sessionVars, console, arg>>

NextTrapeze == CallTrapeze

SpecTrapeze == InitTrapeze /\ [][NextTrapeze]_vars

Resolves(allTerms, shortName) ==
  \E i \in DOMAIN allTerms : allTerms[i].shortName = shortName

\* C7: for every cell term-name sequence in which at least one name resolves
\* to a registry term, the trapezoid of getTrapezeFromLTSets satisfies
\* a <= b <= c <= d, whatever triangular components the registry stores.
C7_TrapezeOrdered ==
  (pc = "done"
     /\ \E i \in DOMAIN arg.ltShortNames : Resolves(arg.allTerms, arg.ltShortNames[i]))
    => /\ res # None
       /\ Le(res[1].a, res[1].b) /\ Le(res[1].b, res[1].c) /\ Le(res[1].c, res[1].d)

TriFinite(t) == ~IsNaN(t.left) /\ ~IsNaN(t.middle) /\ ~IsNaN(t.right)

\* C7 over the registries all of whose stored components are finite
C7_TrapezeOrderedFinite ==
  (pc = "done"
     /\ \A k \in DOMAIN arg.allTerms : TriFinite(arg.allTerms[k].tri)
     /\ \E i \in DOMAIN arg.ltShortNames : Resolves(arg.allTerms, arg.ltShortNames[i]))
    => /\ res # None
       /\ Le(res[1].a, res[1].b) /\ Le(res[1].b, res[1].c) /\ Le(res[1].c, res[1].d)

\* ------------------------------------------------------- alpha-cut, applied
TrapezeValues == {-One, -Half, 0, Half, One}
AlphaValues == {0, Half \div 2, Half, One}

\* every trapezoid over the values, in any order, and the trapezoid of a
\* term with a blank field
TrapezeInputs ==
  {Trapeze(a, b, c, d) : a \in TrapezeValues, b \in TrapezeValues,
                         c \in TrapezeValues, d \in TrapezeValues}
    \cup {Trapeze(NaN, NaN, NaN, NaN)}

InitAlpha ==
  /\ rev = "App.tsx"
  /\ InitSession
  /\ arg \in {[trapeze |-> t, alpha |-> al] : t \in TrapezeInputs, al \in AlphaValues}
  /\ res = <<>>
  /\ pc = "start"

CallAlpha ==
  /\ pc = "start"
  /\ res' = getIntervalFromTrapeze(arg.trapeze, arg.alpha)
  /\ pc' = "done"
  /\ UNCHANGED <<rev, sessionVars, console, arg>>

NextAlpha == CallAlpha

SpecAlpha == InitAlpha /\ [][NextAlpha]_vars

\* C8: for every trapezoid {a,b,c,d}, getIntervalFromTrapeze returns
\* {l: a, r: d} at alpha = 0 and {l: b, r: c} at alpha = 1.
C8_AlphaBoundary ==
  pc = "done" =>
    /\ arg.alpha = 0 => res = Interval(arg.trapeze.a, arg.trapeze.d)
    /\ arg.alpha = One => res = Interval(arg.trapeze.b, arg.trapeze.c)

\* the cut at alpha = 1 of a trapezoid whose core differs from its support
C8_Witness ==
  /\ pc = "done"
  /\ arg.alpha = One
  /\ arg.trapeze = Trapeze(-One, -Half, Half, One)
  /\ res = Interval(-Half, Half)

\* ----------------------------------------------------- probability, applied
ProbRange == 24         \* interval ends range over -ProbRange..ProbRange units

ProbInputs == Floats(-ProbRange, ProbRange) \cup {-One, -Half, Half, One}

\* two intervals {l1, r} and {l2, r} with l1 <= l2 <= r
InitProb ==
  /\ rev \in Revisions
  /\ InitSession
  /\ arg \in {[l1 |-> a, l2 |-> b, r |-> c] :
                a \in ProbInputs, b \in ProbInputs, c \in ProbInputs}
  /\ arg.l1 <= arg.l2 /\ arg.l2 <= arg.r
  /\ res = <<>>
  /\ pc = "start"

CallProbability ==
  /\ pc = "start"
  /\ res' = <<calculateProbabilityOf(rev, Interval(arg.l1, arg.r)),
              calculateProbabilityOf(rev, Interval(arg.l2, arg.r))>>
  /\ pc' = "done"
  /\ UNCHANGED <<rev, sessionVars, console, arg>>

NextProb == CallProbability

SpecProb == InitProb /\ [][NextProb]_vars

\* what C9 says of the interval {l, r} and the probability p computed for it
BranchesOf(l, r, p) ==
  /\ l >= 0 => p = One
  /\ (r <= 0 /\ l < 0) => p = 0
  /\ (l < 0 /\ 0 < r) => p = FDiv(r, FSub(r, l))

\* C9 as stated: for every interval {l, r} with l <= r, calculateProbability
\* returns 1 when l >= 0, 0 when r <= 0 (and l < 0), and r / (r - l) when
\* l < 0 < r.
C9_Branches ==
  pc = "done" =>
    BranchesOf(arg.l1, arg.r, res[1]) /\ BranchesOf(arg.l2, arg.r, res[2])

\* C9 amended: calculateProbability of App.tsx returns 1 when l >= 0, 0 when
\* r <= 0 (and l < 0), and r / (r - l) when l < 0 < r; calculateProbability
\* of part_000 returns 0 when r <= 0 (and l < 0).
C9_BranchesByRevision ==
  pc = "done" =>
    /\ rev = "App.tsx" =>
         BranchesOf(arg.l1, arg.r, res[1]) /\ BranchesOf(arg.l2, arg.r, res[2])
    /\ rev = "part_000" =>
         /\ (arg.r <= 0 /\ arg.l1 < 0) => res[1] = 0
         /\ (arg.r <= 0 /\ arg.l2 < 0) => res[2] = 0

\* App.tsx has scored an interval that straddles zero and one that starts at zero
C9_Witness ==
  /\ pc = "done"
  /\ rev = "App.tsx"
  /\ arg.l1 = -Half /\ arg.l2 = 0 /\ arg.r = One
  /\ res[1] # 0 /\ res[1] # One /\ res[2] = One

\* C10 as stated: for l1 < l2 < 0 < r, probability({l1, r}) < probability({l2, r}).
C10_StrictlyIncreasing ==
  (pc = "done" /\ arg.l1 < arg.l2 /\ arg.l2 < 0 /\ 0 < arg.r) => res[1] < res[2]

\* C10 amended: in App.tsx, for l1 < l2 < 0 < r,
\* probability({l1, r}) <= probability({l2, r}).
C10_NonDecreasingApp ==
  (pc = "done" /\ rev = "App.tsx" /\ arg.l1 < arg.l2 /\ arg.l2 < 0 /\ 0 < arg.r)
    => res[1] <= res[2]

\* the same of both revisions
C10_NonDecreasing ==
  (pc = "done" /\ arg.l1 < arg.l2 /\ arg.l2 < 0 /\ 0 < arg.r) => res[1] <= res[2]

\* the same of both revisions, strict, where the two ends are far enough apart
\* for every intermediate result to be exact
C10_Witness ==
  /\ pc = "done"
  /\ rev = "App.tsx"
  /\ arg.l1 = -One /\ arg.l2 = -Half /\ arg.r = One
  /\ res[1] < res[2]

\* --------------------------------------------------------- scoring, applied
MaxScoreCells == 3      \* most cells of a trapezoid matrix handed to the scoring

\* trapezoids a registry yields: the zero trapezoid, ordered ones below,
\* across and above zero, and the one a term with a blank field yields
ScoreTrapezes ==
  {ZeroTrapeze,
   Trapeze(-One, -Half, 0, Half),
   Trapeze(-Half, 0, Half, One),
   Trapeze(0, Half, Half, One),
   Trapeze(-One, -One, -Half, 0),
   Trapeze(NaN, NaN, NaN, NaN)}

ScoreAlphas == {0, Half \div 2, Half, One}

\* the matrices of nAlt rows of nCrit trapezoids
ScoreMatrices(nAlt, nCrit) == [1..nAlt -> [1..nCrit -> ScoreTrapezes]]

InitScore ==
  /\ rev \in Revisions
  /\ InitSession
  /\ \E nAlt \in 1..MaxScoreCells : \E nCrit \in 1..MaxScoreCells :
       /\ nAlt * nCrit <= MaxScoreCells
       /\ \E matrix \in ScoreMatrices(nAlt, nCrit) :
            \E method \in Methods : \E al \in ScoreAlphas :
              arg = [matrix |-> matrix, method |-> method, alpha |-> al,
                     numAlternatives |-> nAlt, numCriterias |-> nCrit]
  /\ res = <<>>
  /\ pc = "start"

\* the body of handleCalculateMethod past its guard
CallScore ==
  /\ pc = "start"
  /\ LET rs == results(rev, arg.method, arg.matrix, arg.numAlternatives,
                       arg.numCriterias, arg.alpha)
     IN  res' = [displayResults |-> rs,
                 bestProbability |->
                   Some(maxProbabilityUpTo(rs, arg.method, arg.numAlternatives))]
  /\ pc' = "done"
  /\ UNCHANGED <<rev, sessionVars, console, arg>>

NextScore == CallScore

SpecScore == InitScore /\ [][NextScore]_vars

\* the alternatives that were scored, their probabilities, and the marked ones
ScoredAlternatives ==
  {i \in DOMAIN res.displayResults :
     probabilityOf(res.displayResults[i], arg.method) # None}

ProbabilityOfAlternative(i) == probabilityOf(res.displayResults[i], arg.method)[1]

MarkedAlternatives ==
  {i \in DOMAIN res.displayResults :
     isWinner(res.displayResults[i], arg.method, res.bestProbability)}

\* the alternatives whose probability is the maximum over the scored ones
MaximalAlternatives ==
  {i \in ScoredAlternatives :
     \A j \in ScoredAlternatives :
       Ge(ProbabilityOfAlternative(i), ProbabilityOfAlternative(j))}

AllProbabilitiesDistinct ==
  \A i \in ScoredAlternatives : \A j \in ScoredAlternatives :
    i # j => ~StrictEq(ProbabilityOfAlternative(i), ProbabilityOfAlternative(j))

\* C11: after handleCalculateMethod the alternatives marked as winners are
\* exactly the alternatives whose probability equals the maximum probability
\* over all scored alternatives, and when all probabilities are distinct
\* exactly one alternative is marked.
C11_Winners ==
  pc = "done" =>
    /\ MarkedAlternatives = MaximalAlternatives
    /\ AllProbabilitiesDistinct => Cardinality(MarkedAlternatives) = 1

\* the same where no probability is NaN
C11_WinnersOfNumbers ==
  (pc = "done" /\ \A i \in ScoredAlternatives : ~IsNaN(ProbabilityOfAlternative(i))) =>
    /\ MarkedAlternatives = MaximalAlternatives
    /\ AllProbabilitiesDistinct => Cardinality(MarkedAlternatives) = 1

\* the least and the greatest of a non-empty set of numbers, NaN if it holds NaN
LeastOf(S) == IF NaN \in S THEN NaN ELSE CHOOSE x \in S : \A y \in S : x <= y
GreatestOf(S) == IF NaN \in S THEN NaN ELSE CHOOSE x \in S : \A y \in S : x >= y

RowOf(i) == arg.matrix[i]
ComponentsOf(i, f) == {RowOf(i)[j][f] : j \in DOMAIN RowOf(i)}

\* the envelope {min a, min b, max c, max d} of row i
EnvelopeOf(i) ==
  Trapeze(LeastOf(ComponentsOf(i, "a")), LeastOf(ComponentsOf(i, "b")),
          GreatestOf(ComponentsOf(i, "c")), GreatestOf(ComponentsOf(i, "d")))

\* the component-wise mean of row i, summed from 0 in column order
MeanOf(i) ==
  Trapeze(FDivInt(SumFrom(Column(RowOf(i), "a"), 1, 0), arg.numCriterias),
          FDivInt(SumFrom(Column(RowOf(i), "b"), 1, 0), arg.numCriterias),
          FDivInt(SumFrom(Column(RowOf(i), "c"), 1, 0), arg.numCriterias),
          FDivInt(SumFrom(Column(RowOf(i), "d"), 1, 0), arg.numCriterias))

CutsOf(i, f) ==
  {getIntervalFromTrapeze(RowOf(i)[j], arg.alpha)[f] : j \in DOMAIN RowOf(i)}

\* C13: under the pessimistic method the interval scored for alternative i
\* is {l: min_j l_ij, r: min_j r_ij} over the alpha-cuts of the cells of row i.
C13_Pessimistic ==
  (pc = "done" /\ arg.method = "pessimistic") =>
    \A i \in DOMAIN res.displayResults :
      res.displayResults[i].pessInterval =
        Interval(LeastOf(CutsOf(i, "l")), LeastOf(CutsOf(i, "r")))

\* a row of two cells with different alpha-cuts was scored pessimistically
C13_Witness ==
  /\ pc = "done"
  /\ arg.method = "pessimistic"
  /\ arg.alpha = 0
  /\ arg.matrix = <<<<Trapeze(-Half, 0, Half, One), Trapeze(-One, -Half, 0, Half)>>>>
  /\ res.displayResults[1].pessInterval = Interval(-One, Half)

\* C14: under the optimistic method the interval scored for alternative i is
\* {l: max_j l_ij, r: max_j r_ij} over the alpha-cuts of the cells of row i.
C14_Optimistic ==
  (pc = "done" /\ arg.method = "optimistic") =>
    \A i \in DOMAIN res.displayResults :
      res.displayResults[i].optInterval =
        Interval(GreatestOf(CutsOf(i, "l")), GreatestOf(CutsOf(i, "r")))

\* a row of two cells with different alpha-cuts was scored optimistically
C14_Witness ==
  /\ pc = "done"
  /\ arg.method = "optimistic"
  /\ arg.alpha = 0
  /\ arg.matrix = <<<<Trapeze(-Half, 0, Half, One), Trapeze(-One, -Half, 0, Half)>>>>
  /\ res.displayResults[1].optInterval = Interval(-Half, One)

\* ------------------------------------------- one cell, expanded to scored
CellInputs == {Undefined, "L", "H", "X"}          \* "X" is in no registry

\* every float in [0, 1]
UnitFloats == Floats(0, One)

InitCell ==
  /\ rev \in Revisions
  /\ InitSession
  /\ arg \in {[cell |-> Cell(f, t), terms |-> ts, alpha |-> al] :
                f \in CellInputs, t \in CellInputs,
                ts \in SessionRegistries, al \in UnitFloats}
  /\ res = <<>>
  /\ pc = "start"

\* what the three steps make of one cell: the callback of row.map in
\* handleTransformToIntervals, the callback of row.map in
\* handleTransformToTrapeze, and the alpha-cut and its probability
CallCell ==
  /\ pc = "start"
  /\ LET termSet == expandCell(arg.cell, termShortNamesOf(arg.terms))
         found == getTrapezeFromLTSets(termSet, arg.terms)
         trapeze == IF found = None THEN ZeroTrapeze ELSE found[1]
         interval == getIntervalFromTrapeze(trapeze, arg.alpha)
     IN  res' = [termSet |-> termSet, trapeze |-> trapeze, interval |-> interval,
                 probability |-> calculateProbabilityOf(rev, interval)]
  /\ pc' = "done"
  /\ UNCHANGED <<rev, sessionVars, console, arg>>

NextCell == CallCell

SpecCell == InitCell /\ [][NextCell]_vars

\* C21 as stated: a cell with no judgment (neither from nor to) expands to
\* the empty term set, aggregates to the zero trapezoid {0,0,0,0}, alpha-cuts
\* to the interval {0,0} at every alpha in [0,1], and calculateProbability of
\* that interval is 1.
C21_Unfilled ==
  (pc = "done" /\ arg.cell = Cell(Undefined, Undefined)) =>
    /\ res.termSet = <<>>
    /\ res.trapeze = Trapeze(0, 0, 0, 0)
    /\ res.interval = Interval(0, 0)
    /\ res.probability = One

\* C21 amended: a cell with no judgment expands to the empty term set,
\* aggregates to the zero trapezoid {0,0,0,0} and alpha-cuts to the interval
\* {0,0} at every alpha in [0,1]; calculateProbability of that interval is 1
\* in App.tsx and 0 in part_000.
C21_UnfilledByRevision ==
  (pc = "done" /\ arg.cell = Cell(Undefined, Undefined)) =>
    /\ res.termSet = <<>>
    /\ res.trapeze = Trapeze(0, 0, 0, 0)
    /\ res.interval = Interval(0, 0)
    /\ res.probability = IF rev = "App.tsx" THEN One ELSE 0

\* a cell with no judgment went through the three steps over a registry of
\* two terms, cut at a level strictly between 0 and 1
C21_Witness ==
  /\ pc = "done"
  /\ arg.cell = Cell(Undefined, Undefined)
  /\ Len(arg.terms) = 2
  /\ arg.alpha = Half \div 2
  /\ res.interval = Interval(0, 0)

\* every cell of the trapezoid matrix satisfies a <= b <= c <= d
MatrixOrdered ==
  \A i \in DOMAIN arg.matrix : \A j \in DOMAIN arg.matrix[i] :
    LET t == arg.matrix[i][j]
    IN  Le(t.a, t.b) /\ Le(t.b, t.c) /\ Le(t.c, t.d)

\* C22: every probability stored in displayResults is in [0, 1], for every
\* method, every alpha in [0, 1] and every trapezoid matrix whose cells satisfy
\* a <= b <= c <= d.
C22_ProbabilityInUnit ==
  (pc = "done" /\ MatrixOrdered) =>
    \A i \in ScoredAlternatives :
      Le(0, ProbabilityOfAlternative(i)) /\ Le(ProbabilityOfAlternative(i), One)

\* part_000 has scored, pessimistically, a row that lies below zero at the
\* cut, next to a row that lies across it
C22_Witness ==
  /\ pc = "done"
  /\ MatrixOrdered
  /\ rev = "part_000"
  /\ arg.method = "pessimistic"
  /\ arg.alpha = Half
  /\ arg.matrix = <<<<Trapeze(-One, -One, -Half, 0)>>, <<Trapeze(-Half, 0, Half, One)>>>>
  /\ ProbabilityOfAlternative(1) = 0
  /\ Lt(0, ProbabilityOfAlternative(2)) /\ Lt(ProbabilityOfAlternative(2), One)

\* the same of calculateProbability alone, over every interval {l, r} with l <= r
C22_ProbabilityInUnitOfIntervals ==
  pc = "done" =>
    /\ Le(0, res[1]) /\ Le(res[1], One)
    /\ Le(0, res[2]) /\ Le(res[2], One)

\* ------------------------------------ trapezoidal aggregation, its formula
\* the ordered triangular numbers of the terms the names of the cell resolve
\* to, a name resolving to the first term of the registry that bears it
ResolvedOrdered ==
  {orderTriangular(arg.allTerms[k].tri) :
     k \in {k \in DOMAIN arg.allTerms :
              \E i \in DOMAIN arg.ltShortNames :
                FoundAt(termShortNamesOf(arg.allTerms), arg.ltShortNames[i], k)}}

\* C25: for every cell term-name sequence with at least one resolving name,
\* getTrapezeFromLTSets returns a = min of lefts, b = min of middles, c = max
\* of middles, d = max of rights, taken over the ordered (orderTriangular)
\* triangular numbers of the resolving terms only; unresolved names
\* contribute nothing.
C25_EnvelopeOfResolved ==
  (pc = "done"
     /\ \E i \in DOMAIN arg.ltShortNames : Resolves(arg.allTerms, arg.ltShortNames[i]))
    => res = Some(Trapeze(LeastOf({t.left : t \in ResolvedOrdered}),
                          LeastOf({t.middle : t \in ResolvedOrdered}),
                          GreatestOf({t.middle : t \in ResolvedOrdered}),
                          GreatestOf({t.right : t \in ResolvedOrdered})))

\* a cell that names two terms, one of them stored unordered, whose envelope
\* is neither of them
C25_Witness ==
  /\ pc = "done"
  /\ arg.ltShortNames = <<"B", "A">>
  /\ arg.allTerms = <<Term("term", "A", Tri(-One, -Half, 0)),
                      Term("term", "B", Tri(0, One, Half))>>
  /\ res = Some(Trapeze(-One, -Half, Half, One))

\* a cell one name of which is in no registry: the trapezoid is the one of
\* the other name alone
C25_UnresolvedDropped ==
  (pc = "done" /\ Len(arg.ltShortNames) = 2 /\ arg.ltShortNames[1] = "X"
     /\ Resolves(arg.allTerms, arg.ltShortNames[2]))
    => res = getTrapezeFromLTSets(<<arg.ltShortNames[2]>>, arg.allTerms)

\* --------------------------------------------- alpha-cut at two levels
\* the trapezoids with a <= b <= c <= d
OrderedTrapezes ==
  {t \in TrapezeInputs : Le(t.a, t.b) /\ Le(t.b, t.c) /\ Le(t.c, t.d)}

\* one trapezoid and two levels alpha1 <= alpha2 in [0, 1]
InitCut ==
  /\ rev = "App.tsx"
  /\ InitSession
  /\ arg \in {[trapeze |-> t, alpha1 |-> a1, alpha2 |-> a2] :
                t \in OrderedTrapezes, a1 \in UnitFloats, a2 \in UnitFloats}
  /\ arg.alpha1 <= arg.alpha2
  /\ res = <<>>
  /\ pc = "start"

CallCut ==
  /\ pc = "start"
  /\ res' = <<getIntervalFromTrapeze(arg.trapeze, arg.alpha1),
              getIntervalFromTrapeze(arg.trapeze, arg.alpha2)>>
  /\ pc' = "done"
  /\ UNCHANGED <<rev, sessionVars, console, arg>>

NextCut == CallCut

SpecCut == InitCut /\ [][NextCut]_vars

\* C26: the alpha-cut is monotonic in alpha: for every trapezoid with
\* a <= b <= c <= d and all 0 <= alpha1 <= alpha2 <= 1, l(alpha1) <= l(alpha2)
\* and r(alpha1) >= r(alpha2), so that the interval at alpha2 is contained in
\* the interval at alpha1.
C26_MonotonicInAlpha ==
  pc = "done" => Le(res[1].l, res[2].l) /\ Ge(res[1].r, res[2].r)

\* the same between the two ends of the scale, where the cut is exact
C26_MonotonicAtEnds ==
  (pc = "done" /\ arg.alpha1 = 0 /\ arg.alpha2 = One) =>
    Le(res[1].l, res[2].l) /\ Ge(res[1].r, res[2].r)

\* ------------------------------------- pessimistic against optimistic
\* one row of two ordered trapezoids and a level alpha in [0, 1]
InitRow ==
  /\ rev \in Revisions
  /\ InitSession
  /\ arg \in {[row |-> <<s, t>>, alpha |-> al] :
                s \in OrderedTrapezes, t \in OrderedTrapezes, al \in UnitFloats}
  /\ res = <<>>
  /\ pc = "start"

\* the loop body of handleCalculateMethod for the row, once with the
\* pessimistic method selected and once with the optimistic one
CallRow ==
  /\ pc = "start"
  /\ res' = [pessimistic |-> resultOf(rev, "pessimistic", arg.row, Len(arg.row), arg.alpha),
             optimistic |-> resultOf(rev, "optimistic", arg.row, Len(arg.row), arg.alpha)]
  /\ pc' = "done"
  /\ UNCHANGED <<rev, sessionVars, console, arg>>

NextRow == CallRow

SpecRow == InitRow /\ [][NextRow]_vars

\* C29: for every alternative, every alpha in [0, 1] and every trapezoid row
\* whose cells satisfy a <= b <= c <= d, the probability computed under the
\* pessimistic method is less than or equal to the probability computed
\* under the optimistic method for the same row.
C29_PessimisticBelowOptimistic ==
  pc = "done" => Le(res.pessimistic.pessProbability, res.optimistic.optProbability)

\* the intervals themselves are in that order, end by end
C29_IntervalsInOrder ==
  pc = "done" =>
    /\ Le(res.pessimistic.pessInterval.l, res.optimistic.optInterval.l)
    /\ Le(res.pessimistic.pessInterval.r, res.optimistic.optInterval.r)

====
